---- MODULE Spec2Model ----
(***************************************************************************)
(* Model of the clinical risk pipeline: scripts/load_data.py,              *)
(* scripts/process_patients.py, scripts/risk_scoring.py and                *)
(* scripts/generate_report.py, and load_report_data of                     *)
(* dashboard/streamlit_app.py.                                             *)
(*                                                                         *)
(* Conventions.                                                            *)
(*  - A DataFrame is a sequence of rows (records).  pd.DataFrame([]) has   *)
(*    no columns, so selecting a column of it raises KeyError.             *)
(*  - A nullable cell (NaN / None) is the empty set None; a present cell   *)
(*    is the singleton Some(v).                                            *)
(*  - Lab values are held in tenths (6.5 is 65, 240 is 2400) so that both  *)
(*    thresholds are integers.                                             *)
(*  - An ISO date string is held as its rank in DateStrings, which lists   *)
(*    the strings in lexicographic order (the order pandas sorts them in). *)
(*  - A string that the code takes apart is a sequence of pieces.          *)
(***************************************************************************)
EXTENDS Integers, Sequences, FiniteSets, TLC

VARIABLES
    data,                    \* the input file: what it is and, for a JSON
                             \* object, its collections
    clock,                   \* index into Calendar: datetime.now()
    status,                  \* how the last call ended: "none", "ok" or an exception
    normalized_data,         \* result of load_and_normalize_data
    enriched_patients_df,    \* result of enrich_patient_data
    latest_labs_df,          \* result of get_latest_lab_values
    risk_df,                 \* result of calculate_combined_risk
    patients_with_risks_df,  \* score_patient_risks()[0]
    risk_summary,            \* score_patient_risks()[1]
    high_risk_df,            \* result of filter_high_risk_patients
    csv_file,                \* outputs/high_risk_report.csv
    json_file,               \* outputs/high_risk_report.json
    runs,                    \* number of completed generate_reports calls
    dashboard                \* the calls of load_report_data: their number, the
                             \* last call's outcome and the st.cache_data entry

vars == <<data, clock, status, normalized_data, enriched_patients_df,
          latest_labs_df, risk_df, patients_with_risks_df, risk_summary,
          high_risk_df, csv_file, json_file, runs, dashboard>>

-----------------------------------------------------------------------------
(* Nullable cells *)

None == {}
Some(v) == {v}
IsNull(x) == x = {}
Val(x) == CHOOSE v \in x : TRUE

Range(s) == {s[i] : i \in 1..Len(s)}

-----------------------------------------------------------------------------
(* Bounds of the model *)

MaxPatients == 2
MaxObs == 3
MaxObsRerun == 1
MaxRuns == 2
MaxPatientsEnrich == 2
MaxRefs == 1
MaxPatientsJoin == 2
MaxObsJoin == 2
MaxLoads == 2

(* Program constants, in tenths *)
DIABETES_HBA1C_THRESHOLD == 65
CARDIOVASCULAR_CHOLESTEROL_THRESHOLD == 2400

-----------------------------------------------------------------------------
(* Input universe *)

\* effectiveDateTime strings in lexicographic order; a date is its index.
DateStrings == <<"", "2023-01-01", "2023-06-01">>
DateRank(s) == CHOOSE i \in 1..Len(DateStrings) : DateStrings[i] = s

\* patient ids in lexicographic order (the order groupby and merge sort keys in)
PatientIdOrder == <<"", "p1", "p2">>
PatientIds == {"p1", "p2"}

\* the processing dates a run can happen on
Calendar == << [year |-> 2026, month |-> 11, day |-> 4],
               [year |-> 2026, month |-> 11, day |-> 5],
               [year |-> 2026, month |-> 11, day |-> 6] >>

\* birthDate strings of the input documents
BirthDates == {"", "unknown", "2008-11-05", "1991-11-05", "1976-11-05",
               "1961-11-05", "1906-11-05", "2027-01-01"}

RawObs(pid, code, value, date) ==
    [code |-> code, value |-> value, date |-> DateRank(date),
     reference |-> <<"Patient", pid>>]

\* representative raw observations: tracked and untracked test names in
\* several spellings, values at and around both thresholds, absent values,
\* two dates and a missing date, two patients
ObservationPool ==
    { RawObs("p1", "Hemoglobin A1c", Some(65),   "2023-01-01"),
      RawObs("p1", "hemoglobin a1c", None,       "2023-06-01"),
      RawObs("p1", "Hemoglobin A1c", Some(64),   "2023-06-01"),
      RawObs("p1", "CHOLESTEROL",    Some(2400), "2023-01-01"),
      RawObs("p1", "Cholesterol",    Some(2399), "2023-06-01"),
      RawObs("p1", "Glucose",        Some(2400), "2023-06-01"),
      RawObs("p2", "cholesterol",    Some(2400), "") }

SeqsUpTo(S, n) == UNION {[1..k -> S] : k \in 0..n}

RawPatient(id, birthDate) == [id |-> Some(id), birthDate |-> birthDate]

\* a patient record without an 'id'
RawPatientNoId(birthDate) == [id |-> None, birthDate |-> birthDate]

\* subject.reference / patient.reference strings as their '/'-separated
\* pieces: absent or "", "Patient/p1", "Patient/p2", "p1", "Practitioner/p1",
\* "Patient/"
References ==
    { <<>>, <<"Patient", "p1">>, <<"Patient", "p2">>, <<"p1">>,
      <<"Practitioner", "p1">>, <<"Patient", "">> }

\* an observation (HbA1c 6.5 on 2023-01-01), a medication request or an
\* allergy with a given reference
RawObsRef(code, ref) ==
    [code |-> code, value |-> Some(65), date |-> DateRank("2023-01-01"),
     reference |-> ref]
RawMedication(ref) == [reference |-> ref]
RawAllergy(ref) == [reference |-> ref]

\* what the input file holds: a JSON object, no file, text that is not JSON,
\* or JSON whose top level is an array
FileKinds == {"object", "missing", "invalid json", "array"}

-----------------------------------------------------------------------------
(* scripts/load_data.py *)

\* load_fhir_data: open() raises FileNotFoundError, json.load raises
\* JSONDecodeError; any JSON value is returned as it is
load_fhir_data(f) ==
    CASE f.file = "missing" -> "FileNotFoundError"
      [] f.file = "invalid json" -> "JSONDecodeError"
      [] OTHER -> "ok"

\* patient.get('id', ''), patient.get('birthDate', ''); the name, gender and
\* address columns are copied through every stage and are left out
normalize_patients(d) ==
    [i \in 1..Len(d.patients) |->
        [patient_id |-> IF IsNull(d.patients[i].id) THEN ""
                        ELSE Val(d.patients[i].id),
         birthdate  |-> d.patients[i].birthDate]]

\* patient_ref.split('/')[-1] if patient_ref else ''
\* (a reference is the sequence of its '/'-separated pieces, "" is <<>>)
patient_id_of(patient_ref) ==
    IF patient_ref = <<>> THEN "" ELSE patient_ref[Len(patient_ref)]

normalize_observations(d) ==
    [i \in 1..Len(d.observations) |->
        [code       |-> d.observations[i].code,
         value      |-> d.observations[i].value,
         date       |-> d.observations[i].date,
         patient_id |-> patient_id_of(d.observations[i].reference)]]

\* normalize_medications and normalize_allergies: the foreign key (the other
\* columns are used by no later stage and are left out)
normalize_medications(d) ==
    [i \in 1..Len(d.medications) |->
        [patient_id |-> patient_id_of(d.medications[i].reference)]]

normalize_allergies(d) ==
    [i \in 1..Len(d.allergies) |->
        [patient_id |-> patient_id_of(d.allergies[i].reference)]]

NotLoaded ==
    [patients_df |-> <<>>, observations_df |-> <<>>, medications_df |-> <<>>,
     allergies_df |-> <<>>]

\* load_and_normalize_data: an exception of load_fhir_data propagates, and
\* data.get of a list raises AttributeError in normalize_patients
load_and_normalize_data(f) ==
    IF load_fhir_data(f) # "ok" THEN [status |-> load_fhir_data(f), frames |-> NotLoaded]
    ELSE IF f.file # "object" THEN [status |-> "AttributeError", frames |-> NotLoaded]
    ELSE [status |-> "ok",
          frames |-> [patients_df     |-> normalize_patients(f),
                      observations_df |-> normalize_observations(f),
                      medications_df  |-> normalize_medications(f),
                      allergies_df    |-> normalize_allergies(f)]]

-----------------------------------------------------------------------------
(* scripts/process_patients.py *)

\* datetime.strptime(birthdate, '%Y-%m-%d'): None stands for ValueError
Ymd(y, m, d) == [year |-> y, month |-> m, day |-> d]

strptime(s) ==
    CASE s = "2008-11-05" -> Some(Ymd(2008, 11, 5))
      [] s = "1991-11-05" -> Some(Ymd(1991, 11, 5))
      [] s = "1976-11-05" -> Some(Ymd(1976, 11, 5))
      [] s = "1961-11-05" -> Some(Ymd(1961, 11, 5))
      [] s = "1906-11-05" -> Some(Ymd(1906, 11, 5))
      [] s = "2027-01-01" -> Some(Ymd(2027, 1, 1))
      [] OTHER -> None

\* (today.month, today.day) < (birth_date.month, birth_date.day)
TupleLess(a, b) == a[1] < b[1] \/ (a[1] = b[1] /\ a[2] < b[2])

calculate_age(birthdate, today) ==
    IF birthdate = "" THEN None
    ELSE LET parsed == strptime(birthdate) IN
         IF IsNull(parsed) THEN None
         ELSE LET b == Val(parsed) IN
              Some(today.year - b.year
                   - (IF TupleLess(<<today.month, today.day>>, <<b.month, b.day>>)
                      THEN 1 ELSE 0))

bins == <<0, 18, 35, 50, 65, 120>>
labels == <<"0-18", "19-35", "36-50", "51-65", "65+">>

\* bins.searchsorted(x, side): the number of bin edges e with e <= x
\* (side = 'right', used when right=False) or e < x (side = 'left')
searchsorted_left(x) == Cardinality({i \in 1..Len(bins) : bins[i] < x})
searchsorted(x) == Cardinality({i \in 1..Len(bins) : bins[i] <= x})

\* pd.cut(age, bins, labels, right=False) on one cell
cut(age) ==
    IF IsNull(age) THEN None
    ELSE LET ids == searchsorted(Val(age)) IN
         IF ids = 0 \/ ids = Len(bins) THEN None ELSE Some(labels[ids])

\* enrich_patient_data: [status, df].  df['birthdate'] of a frame without
\* columns raises KeyError; when every age is None the age column has dtype
\* object and pd.cut raises TypeError (searchsorted compares None with int).
enrich_patient_data(patients_df, today) ==
    IF patients_df = <<>> THEN [status |-> "KeyError", df |-> <<>>]
    ELSE LET age == [i \in 1..Len(patients_df) |->
                        calculate_age(patients_df[i].birthdate, today)] IN
         IF \A i \in 1..Len(patients_df) : IsNull(age[i])
         THEN [status |-> "TypeError", df |-> <<>>]
         ELSE [status |-> "ok",
               df |-> [i \in 1..Len(patients_df) |->
                          [patient_id |-> patients_df[i].patient_id,
                           birthdate  |-> patients_df[i].birthdate,
                           age        |-> age[i],
                           age_group  |-> cut(age[i])]]]

-----------------------------------------------------------------------------
(* scripts/risk_scoring.py *)

\* str.lower() on the test names of the input universe
lower(s) ==
    CASE s = "Hemoglobin A1c" -> "hemoglobin a1c"
      [] s = "CHOLESTEROL"    -> "cholesterol"
      [] s = "Cholesterol"    -> "cholesterol"
      [] s = "Glucose"        -> "glucose"
      [] OTHER -> s

\* stable descending sort of <<key, row>> pairs: an equal key keeps input order
RECURSIVE InsertDesc(_, _)
InsertDesc(sorted, p) ==
    IF sorted = <<>> THEN <<p>>
    ELSE IF Head(sorted)[1] >= p[1]
         THEN <<Head(sorted)>> \o InsertDesc(Tail(sorted), p)
         ELSE <<p>> \o sorted

RECURSIVE SortDesc(_)
SortDesc(pairs) ==
    IF pairs = <<>> THEN <<>>
    ELSE InsertDesc(SortDesc(SubSeq(pairs, 1, Len(pairs) - 1)), pairs[Len(pairs)])

\* .sort_values(['patient_id', 'date'], ascending=[True, False]) restricted
\* to one patient_id: the rows of that patient, latest date first
sort_values_date(obs, pid) ==
    LET group == SelectSeq(obs, LAMBDA o : o.patient_id = pid)
        sorted == SortDesc([i \in 1..Len(group) |-> <<group[i].date, group[i]>>])
    IN  [i \in 1..Len(sorted) |-> sorted[i][2]]

\* GroupBy.first() on one column: the first entry that is not null
RECURSIVE first(_)
first(cells) ==
    IF cells = <<>> THEN None
    ELSE IF ~IsNull(Head(cells)) THEN Head(cells)
    ELSE first(Tail(cells))

\* .sort_values(...).groupby('patient_id').first().reset_index(): one row
\* per patient_id of obs, keys ascending, each column reduced by first()
latest_per_patient(obs) ==
    LET keys == SelectSeq(PatientIdOrder,
                          LAMBDA pid : \E i \in 1..Len(obs) : obs[i].patient_id = pid)
    IN  [k \in 1..Len(keys) |->
            LET g == sort_values_date(obs, keys[k]) IN
            [patient_id |-> keys[k],
             value      |-> first([i \in 1..Len(g) |-> g[i].value]),
             date       |-> first([i \in 1..Len(g) |-> Some(g[i].date)])]]

Lookup(df, pid) == {i \in 1..Len(df) : df[i].patient_id = pid}

\* pd.merge(..., on='patient_id', how='outer'): the keys of either frame, sorted
merge_keys_inner(a, b) ==
    SelectSeq(PatientIdOrder, LAMBDA pid : Lookup(a, pid) # {} /\ Lookup(b, pid) # {})
merge_keys(a, b) ==
    SelectSeq(PatientIdOrder, LAMBDA pid : Lookup(a, pid) # {} \/ Lookup(b, pid) # {})

\* get_latest_lab_values: the two series outer-merged on patient_id
get_latest_lab_values(observations_df) ==
    LET hba1c_obs == SelectSeq(observations_df,
                               LAMBDA o : lower(o.code) = "hemoglobin a1c")
        cholesterol_obs == SelectSeq(observations_df,
                                     LAMBDA o : lower(o.code) = "cholesterol")
        latest_hba1c == latest_per_patient(hba1c_obs)
        latest_cholesterol == latest_per_patient(cholesterol_obs)
        keys == merge_keys(latest_hba1c, latest_cholesterol)
    IN  [k \in 1..Len(keys) |->
            LET h == Lookup(latest_hba1c, keys[k])
                c == Lookup(latest_cholesterol, keys[k])
            IN  [patient_id        |-> keys[k],
                 hba1c_value       |-> IF h = {} THEN None ELSE latest_hba1c[Val(h)].value,
                 hba1c_date        |-> IF h = {} THEN None ELSE latest_hba1c[Val(h)].date,
                 cholesterol_value |-> IF c = {} THEN None
                                       ELSE latest_cholesterol[Val(c)].value,
                 cholesterol_date  |-> IF c = {} THEN None
                                       ELSE latest_cholesterol[Val(c)].date]]

\* df['hba1c_value'] >= DIABETES_HBA1C_THRESHOLD: a comparison with NaN is False
apply_diabetes_risk_rule_gt(value) ==
    ~IsNull(value) /\ Val(value) > DIABETES_HBA1C_THRESHOLD
apply_diabetes_risk_rule(value) ==
    ~IsNull(value) /\ Val(value) >= DIABETES_HBA1C_THRESHOLD

\* df['cholesterol_value'] >= CARDIOVASCULAR_CHOLESTEROL_THRESHOLD
apply_cardiovascular_risk_rule(value) ==
    ~IsNull(value) /\ Val(value) >= CARDIOVASCULAR_CHOLESTEROL_THRESHOLD

risk_categories == [s \in 0..2 |-> CASE s = 0 -> "Low Risk"
                                     [] s = 1 -> "Moderate Risk"
                                     [] s = 2 -> "High Risk"]

\* str.rstrip('; ') on a string held as pieces; the pieces ";" and " " are
\* the characters stripped, a sentence piece ends in ")" and stops it
rstrip_nothing(s) == s
RECURSIVE rstrip(_)
rstrip(s) ==
    IF s = <<>> THEN <<>>
    ELSE IF s[Len(s)] \in {";", " "} THEN rstrip(SubSeq(s, 1, Len(s) - 1))
    ELSE s

\* calculate_combined_risk on one row carrying both flags
calculate_combined_risk(row) ==
    LET risk_score == (IF row.diabetes_risk THEN 1 ELSE 0)
                      + (IF row.cardiovascular_risk THEN 1 ELSE 0)
        reasons == (IF row.diabetes_risk
                    THEN <<"Diabetes Risk (HbA1c >= 6.5)", ";", " ">> ELSE <<>>)
                   \o (IF row.cardiovascular_risk
                       THEN <<"Cardiovascular Risk (Cholesterol >= 240)", ";", " ">>
                       ELSE <<>>)
    IN  [patient_id          |-> row.patient_id,
         hba1c_value         |-> row.hba1c_value,
         hba1c_date          |-> row.hba1c_date,
         cholesterol_value   |-> row.cholesterol_value,
         cholesterol_date    |-> row.cholesterol_date,
         diabetes_risk       |-> row.diabetes_risk,
         cardiovascular_risk |-> row.cardiovascular_risk,
         risk_score          |-> risk_score,
         risk_category       |-> risk_categories[risk_score],
         risk_reasons        |-> rstrip(reasons)]

\* lines 152-156 of score_patient_risks: both rules, then the combined risk
apply_risk_rules(latest_labs) ==
    [i \in 1..Len(latest_labs) |->
        calculate_combined_risk(
            [patient_id          |-> latest_labs[i].patient_id,
             hba1c_value         |-> latest_labs[i].hba1c_value,
             hba1c_date          |-> latest_labs[i].hba1c_date,
             cholesterol_value   |-> latest_labs[i].cholesterol_value,
             cholesterol_date    |-> latest_labs[i].cholesterol_date,
             diabetes_risk       |-> apply_diabetes_risk_rule(latest_labs[i].hba1c_value),
             cardiovascular_risk |->
                 apply_cardiovascular_risk_rule(latest_labs[i].cholesterol_value)])]

NullRisk ==
    [hba1c_value |-> None, hba1c_date |-> None, cholesterol_value |-> None,
     cholesterol_date |-> None, diabetes_risk |-> None,
     cardiovascular_risk |-> None, risk_score |-> None,
     risk_category |-> None, risk_reasons |-> None]

MergedRow(p, r) ==
    [patient_id          |-> p.patient_id,
     birthdate           |-> p.birthdate,
     age                 |-> p.age,
     age_group           |-> p.age_group,
     hba1c_value         |-> r.hba1c_value,
     hba1c_date          |-> r.hba1c_date,
     cholesterol_value   |-> r.cholesterol_value,
     cholesterol_date    |-> r.cholesterol_date,
     diabetes_risk       |-> r.diabetes_risk,
     cardiovascular_risk |-> r.cardiovascular_risk,
     risk_score          |-> r.risk_score,
     risk_category       |-> r.risk_category,
     risk_reasons        |-> r.risk_reasons]

\* the cells of a risk_df row as they stand in a merged frame
Cells(r) ==
    [hba1c_value |-> r.hba1c_value, hba1c_date |-> r.hba1c_date,
     cholesterol_value |-> r.cholesterol_value,
     cholesterol_date |-> r.cholesterol_date,
     diabetes_risk |-> Some(r.diabetes_risk),
     cardiovascular_risk |-> Some(r.cardiovascular_risk),
     risk_score |-> Some(r.risk_score),
     risk_category |-> Some(r.risk_category),
     risk_reasons |-> Some(r.risk_reasons)]

\* the right rows matching one left row, in right order
RECURSIVE Matches(_, _)
Matches(p, right) ==
    IF right = <<>> THEN <<>>
    ELSE (IF Head(right).patient_id = p.patient_id
          THEN <<MergedRow(p, Cells(Head(right)))>> ELSE <<>>)
         \o Matches(p, Tail(right))

\* pd.merge(left, right, on='patient_id', how='inner')
RECURSIVE merge_inner(_, _)
merge_inner(left, right) ==
    IF left = <<>> THEN <<>>
    ELSE Matches(Head(left), right) \o merge_inner(Tail(left), right)

\* pd.merge(left, right, on='patient_id', how='left'): left order kept, a
\* left row without a match is kept once with null right columns
RECURSIVE merge_left(_, _)
merge_left(left, right) ==
    IF left = <<>> THEN <<>>
    ELSE LET m == Matches(Head(left), right) IN
         (IF m = <<>> THEN <<MergedRow(Head(left), NullRisk)>> ELSE m)
         \o merge_left(Tail(left), right)

\* Series.sum() of a flag column: null cells are skipped
flag_count(cells) == Cardinality({i \in 1..Len(cells) : cells[i] = Some(TRUE)})

\* Series.value_counts().to_dict(): null cells are dropped
value_counts(cells) ==
    [c \in {Val(cells[i]) : i \in {j \in 1..Len(cells) : ~IsNull(cells[j])}} |->
        Cardinality({i \in 1..Len(cells) : cells[i] = Some(c)})]

\* (count / total) * 100, kept as the exact fraction num/den
percentage(count, total) == [num |-> count * 100, den |-> total]

risk_summary_of(df) ==
    LET diabetes == flag_count([i \in 1..Len(df) |-> df[i].diabetes_risk])
        cardio == flag_count([i \in 1..Len(df) |-> df[i].cardiovascular_risk])
    IN  [total_patients |-> Len(df),
         diabetes_risk_count |-> diabetes,
         cardiovascular_risk_count |-> cardio,
         risk_category_counts |->
             value_counts([i \in 1..Len(df) |-> df[i].risk_category]),
         diabetes_risk_percentage |-> percentage(diabetes, Len(df)),
         cardiovascular_risk_percentage |-> percentage(cardio, Len(df))]

NoSummary == [total_patients |-> 0]

Raised(e, frames) ==
    [status |-> e, normalized |-> frames, enriched |-> <<>>, latest_labs |-> <<>>,
     risk |-> <<>>, df |-> <<>>, summary |-> NoSummary]

\* score_patient_risks: an exception of a callee propagates.
\* observations_df['code'] of a frame without columns raises KeyError.
score_patient_risks(d, today) ==
    LET loaded == load_and_normalize_data(d)
        patients_df == loaded.frames.patients_df
        observations_df == loaded.frames.observations_df
        enriched == enrich_patient_data(patients_df, today)
    IN  IF loaded.status # "ok" THEN Raised(loaded.status, loaded.frames)
        ELSE IF enriched.status # "ok" THEN Raised(enriched.status, loaded.frames)
        ELSE IF observations_df = <<>> THEN Raised("KeyError", loaded.frames)
        ELSE LET latest_labs == get_latest_lab_values(observations_df)
                 risk == apply_risk_rules(latest_labs)
                 df == merge_left(enriched.df, risk)
             IN  [status |-> "ok", normalized |-> loaded.frames,
                  enriched |-> enriched.df,
                  latest_labs |-> latest_labs, risk |-> risk, df |-> df,
                  summary |-> risk_summary_of(df)]

-----------------------------------------------------------------------------
(* scripts/generate_report.py *)

\* df[df['risk_score'] > 0]: NaN > 0 is False
risk_score_positive(df) ==
    SelectSeq(df, LAMBDA r : ~IsNull(r.risk_score) /\ Val(r.risk_score) > 0)

sort_values_risk_score(df) ==
    LET sorted == SortDesc([i \in 1..Len(df) |-> <<Val(df[i].risk_score), df[i]>>])
    IN  [i \in 1..Len(sorted) |-> sorted[i][2]]

filter_high_risk_patients_unsorted(df) == risk_score_positive(df)
filter_high_risk_patients(df) == sort_values_risk_score(risk_score_positive(df))

\* high_risk_df[report_columns] (full_name and gender left out with the
\* other pass-through columns)
report_columns(r) ==
    [patient_id |-> r.patient_id, age |-> r.age,
     risk_category |-> r.risk_category, risk_score |-> r.risk_score,
     risk_reasons |-> r.risk_reasons, hba1c_value |-> r.hba1c_value,
     cholesterol_value |-> r.cholesterol_value]

\* report_df.to_csv(output_path, index=False): the file is replaced
to_csv_append(old, rows) == IF IsNull(old) THEN Some(rows) ELSE Some(Val(old) \o rows)
to_csv(old, rows) == Some(rows)

\* generate_csv_report
generate_csv_report(old, high_risk) ==
    to_csv(old, [i \in 1..Len(high_risk) |-> report_columns(high_risk[i])])

\* generate_json_report: open(output_path, 'w') and json.dump
generate_json_report(high_risk, summary, today) ==
    Some([report_date |-> today, summary |-> summary,
          high_risk_patients |-> high_risk])

\* generate_reports after score_patient_risks returned r: filter, then the
\* CSV report, then the JSON report
write_reports(r, today, old_csv, old_json) ==
    [r |-> r,
     high_risk |-> filter_high_risk_patients(r.df),
     csv |-> generate_csv_report(old_csv, filter_high_risk_patients(r.df)),
     json |-> generate_json_report(filter_high_risk_patients(r.df), r.summary, today)]

\* generate_reports after score_patient_risks raised
no_reports(r, old_csv, old_json) ==
    [r |-> r, high_risk |-> <<>>, csv |-> old_csv, json |-> old_json]

\* generate_reports: score_patient_risks runs before either report file is
\* opened, so its exception leaves both files as they were
generate_reports_open_first(d, today, old_csv, old_json) ==
    Val({ IF r.status = "ok" THEN write_reports(r, today, old_csv, old_json)
          ELSE no_reports(r, to_csv(old_csv, <<>>), old_json) :
          r \in {score_patient_risks(d, today)} })

generate_reports(d, today, old_csv, old_json) ==
    Val({ IF r.status = "ok" THEN write_reports(r, today, old_csv, old_json)
          ELSE no_reports(r, old_csv, old_json) :
          r \in {score_patient_risks(d, today)} })

-----------------------------------------------------------------------------
(* dashboard/streamlit_app.py *)

\* pd.read_csv: an empty field is read as NaN, so the patient_id '' comes
\* back null; the other columns come back as they were written
read_csv(rows) ==
    [i \in 1..Len(rows) |->
        [patient_id |-> IF rows[i].patient_id = "" THEN None
                        ELSE Some(rows[i].patient_id),
         age |-> rows[i].age,
         risk_category |-> rows[i].risk_category,
         risk_score |-> rows[i].risk_score,
         risk_reasons |-> rows[i].risk_reasons,
         hba1c_value |-> rows[i].hba1c_value,
         cholesterol_value |-> rows[i].cholesterol_value]]

\* not CSV_REPORT_PATH.exists() or not JSON_REPORT_PATH.exists()
reports_absent_both(csv, json) == IsNull(csv) /\ IsNull(json)
reports_absent(csv, json) == IsNull(csv) \/ IsNull(json)

\* load_report_data after the reports were looked for and, if one was
\* absent, generate_reports returned g: read_csv and open raise
\* FileNotFoundError for a file that is not there; json.load gives back the
\* report json.dump wrote
read_reports(regenerated, g, csv, json) ==
    IF regenerated /\ g.r.status # "ok"
    THEN [regenerated |-> regenerated, g |-> g, status |-> g.r.status,
          returned |-> None]
    ELSE IF IsNull(csv) \/ IsNull(json)
    THEN [regenerated |-> regenerated, g |-> g, status |-> "FileNotFoundError",
          returned |-> None]
    ELSE [regenerated |-> regenerated, g |-> g, status |-> "ok",
          returned |-> Some([high_risk_df |-> read_csv(Val(csv)),
                             report_json |-> Val(json)])]

\* the body of load_report_data: generate_reports is called when a report is
\* absent, and its exception propagates
load_report_data(d, today, old_csv, old_json) ==
    IF reports_absent(old_csv, old_json)
    THEN Val({ read_reports(TRUE, g, g.csv, g.json) :
               g \in {generate_reports(d, today, old_csv, old_json)} })
    ELSE read_reports(FALSE, no_reports(Raised("none", NotLoaded), old_csv, old_json),
                      old_csv, old_json)

-----------------------------------------------------------------------------
(* State machine *)

today == Calendar[clock]

Document(ps, os) ==
    [file |-> "object", patients |-> ps, observations |-> os,
     medications |-> <<>>, allergies |-> <<>>]

\* a file that holds no JSON object
BadFile(kind) ==
    [file |-> kind, patients |-> <<>>, observations |-> <<>>,
     medications |-> <<>>, allergies |-> <<>>]

NoCalls == [loads |-> 0, regenerated |-> FALSE, status |-> "none",
            returned |-> None, cache |-> None]

InitResults ==
    /\ status = "none"
    /\ enriched_patients_df = <<>>
    /\ latest_labs_df = <<>>
    /\ risk_df = <<>>
    /\ patients_with_risks_df = <<>>
    /\ risk_summary = NoSummary
    /\ normalized_data = NotLoaded
    /\ high_risk_df = None
    /\ runs = 0
    /\ dashboard = NoCalls

NoFiles ==
    /\ csv_file = None
    /\ json_file = None

\* the assignments of one call of score_patient_risks with result r
Scoring(r) ==
    /\ status' = r.status
    /\ normalized_data' = r.normalized
    /\ enriched_patients_df' = r.enriched
    /\ latest_labs_df' = r.latest_labs
    /\ risk_df' = r.risk
    /\ patients_with_risks_df' = r.df
    /\ risk_summary' = r.summary

\* the assignments of one call of generate_reports with result g
Reporting(g) ==
    /\ Scoring(g.r)
    /\ csv_file' = g.csv
    /\ json_file' = g.json
    /\ IF g.r.status = "ok"
       THEN /\ high_risk_df' = Some(g.high_risk)
            /\ runs' = runs + 1
       ELSE UNCHANGED <<high_risk_df, runs>>

\* one call of load_and_normalize_data(file_path)
LoadAndNormalizeData ==
    \E loaded \in {load_and_normalize_data(data)} :
    /\ status' = loaded.status
    /\ normalized_data' = loaded.frames
    /\ UNCHANGED <<data, clock, enriched_patients_df, latest_labs_df, risk_df,
                   patients_with_risks_df, risk_summary, high_risk_df, csv_file,
                   json_file, runs, dashboard>>

\* one call of score_patient_risks(file_path)
ScorePatientRisks ==
    \E r \in {score_patient_risks(data, today)} :
    /\ Scoring(r)
    /\ UNCHANGED <<data, clock, high_risk_df, csv_file, json_file, runs, dashboard>>

\* one call of filter_high_risk_patients on the frame score_patient_risks returned
FilterHighRiskPatients ==
    /\ status = "ok"
    /\ high_risk_df' = Some(filter_high_risk_patients(patients_with_risks_df))
    /\ UNCHANGED <<data, clock, status, normalized_data, enriched_patients_df,
                   latest_labs_df, risk_df, patients_with_risks_df, risk_summary,
                   csv_file, json_file, runs, dashboard>>

\* one call of generate_reports(file_path): an exception of
\* score_patient_risks leaves before any file is opened
GenerateReports ==
    /\ runs < MaxRuns
    /\ \E g \in {generate_reports(data, today, csv_file, json_file)} :
           Reporting(g)
    /\ UNCHANGED <<data, clock, dashboard>>

\* one call of load_report_data(): st.cache_data returns the value of an
\* earlier call that returned; otherwise the body runs, and what it returns
\* is cached
LoadReportData ==
    /\ dashboard.loads < MaxLoads
    /\ IF ~IsNull(dashboard.cache)
       THEN /\ dashboard' = [dashboard EXCEPT !.loads = @ + 1,
                                               !.regenerated = FALSE,
                                               !.status = "ok",
                                               !.returned = dashboard.cache]
            /\ UNCHANGED <<status, normalized_data, enriched_patients_df,
                           latest_labs_df, risk_df, patients_with_risks_df,
                           risk_summary, high_risk_df, csv_file, json_file, runs>>
       ELSE \E l \in {load_report_data(data, today, csv_file, json_file)} :
            /\ dashboard' = [loads |-> dashboard.loads + 1,
                             regenerated |-> l.regenerated,
                             status |-> l.status,
                             returned |-> l.returned,
                             cache |-> l.returned]
            /\ IF l.regenerated
               THEN Reporting(l.g)
               ELSE UNCHANGED <<status, normalized_data, enriched_patients_df,
                                latest_labs_df, risk_df, patients_with_risks_df,
                                risk_summary, high_risk_df, csv_file, json_file,
                                runs>>
    /\ UNCHANGED <<data, clock>>

\* one call of enrich_patient_data on the normalized patients
EnrichPatientData ==
    \E r \in {enrich_patient_data(normalize_patients(data), today)} :
    /\ status' = r.status
    /\ enriched_patients_df' = r.df
    /\ UNCHANGED <<data, clock, normalized_data, latest_labs_df, risk_df,
                   patients_with_risks_df, risk_summary, high_risk_df, csv_file,
                   json_file, runs, dashboard>>

\* the processing date moves on between calls
Tick ==
    /\ clock < Len(Calendar)
    /\ clock' = clock + 1
    /\ UNCHANGED <<data, status, normalized_data, enriched_patients_df,
                   latest_labs_df, risk_df, patients_with_risks_df, risk_summary,
                   high_risk_df, csv_file, json_file, runs, dashboard>>

\* Scoring and filtering of one document on one processing date
Init ==
    /\ data \in {Document(ps, os) :
                    ps \in SeqsUpTo({RawPatient(id, "2008-11-05") : id \in PatientIds},
                                    MaxPatients),
                    os \in SeqsUpTo(ObservationPool, MaxObs)}
    /\ clock = 2
    /\ InitResults
    /\ NoFiles

Next == ScorePatientRisks \/ FilterHighRiskPatients

Spec == Init /\ [][Next]_vars

\* Repeated report generation while the processing date moves on
InitReports ==
    /\ data \in {Document(ps, os) :
                    ps \in SeqsUpTo({RawPatient(id, "2008-11-05") : id \in PatientIds},
                                    MaxPatients),
                    os \in SeqsUpTo(ObservationPool, MaxObsRerun)}
    /\ clock = 1
    /\ InitResults
    /\ NoFiles

NextReports == GenerateReports \/ Tick

SpecReports == InitReports /\ [][NextReports]_vars

\* Enrichment of patients over the birth dates
InitEnrich ==
    /\ data \in {Document(ps, <<>>) :
                    ps \in SeqsUpTo({RawPatient("p1", b) : b \in BirthDates},
                                    MaxPatientsEnrich)}
    /\ clock = 1
    /\ InitResults
    /\ NoFiles

NextEnrich == EnrichPatientData \/ Tick

SpecEnrich == InitEnrich /\ [][NextEnrich]_vars

\* Normalization of observations, medications and allergies over the references
InitNormalize ==
    /\ data \in {[file |-> "object", patients |-> <<>>, observations |-> os,
                   medications |-> ms, allergies |-> as] :
                    os \in SeqsUpTo({RawObsRef("Hemoglobin A1c", ref) : ref \in References},
                                    MaxRefs),
                    ms \in SeqsUpTo({RawMedication(ref) : ref \in References}, MaxRefs),
                    as \in SeqsUpTo({RawAllergy(ref) : ref \in References}, MaxRefs)}
    /\ clock = 2
    /\ InitResults
    /\ NoFiles

NextNormalize == LoadAndNormalizeData

SpecNormalize == InitNormalize /\ [][NextNormalize]_vars

\* Scoring of patients with and without an id against observations with
\* resolvable, unresolvable and absent references
JoinPool ==
    {RawObsRef("Hemoglobin A1c", ref) : ref \in References}
    \cup {RawObsRef("Cholesterol", <<>>)}

InitJoin ==
    /\ data \in {Document(ps, os) :
                    ps \in SeqsUpTo({RawPatient("p1", "2008-11-05"),
                                     RawPatientNoId("2008-11-05")}, MaxPatientsJoin),
                    os \in SeqsUpTo(JoinPool, MaxObsJoin)}
    /\ clock = 2
    /\ InitResults
    /\ NoFiles

SpecJoin == InitJoin /\ [][Next]_vars

\* the reports an earlier run left in outputs/
OldReports ==
    generate_reports(Document(<<RawPatient("p1", "2008-11-05")>>,
                              <<RawObs("p1", "Hemoglobin A1c", Some(65), "2023-01-01")>>),
                     Calendar[1], None, None)

\* Any input file, with either report file already there or not
InitFiles ==
    /\ data \in {Document(ps, os) :
                    ps \in SeqsUpTo({RawPatient(id, "2008-11-05") : id \in PatientIds},
                                    MaxPatients),
                    os \in SeqsUpTo(ObservationPool, MaxObsRerun)}
               \cup {BadFile(kind) : kind \in FileKinds \ {"object"}}
    /\ clock = 1
    /\ InitResults
    /\ csv_file \in {None, OldReports.csv}
    /\ json_file \in {None, OldReports.json}

\* Report generation on any input file
SpecFailFast == InitFiles /\ [][NextReports]_vars

\* The dashboard loading its report data
NextDashboard == LoadReportData \/ Tick

SpecDashboard == InitFiles /\ [][NextDashboard]_vars

-----------------------------------------------------------------------------
(* Properties *)

Scored == status = "ok"

Rows(df) == 1..Len(df)

\* the tracked observations of patient pid of a given test kind
TrackedObs(pid, kind) ==
    SelectSeq(normalize_observations(data),
              LAMBDA o : o.patient_id = pid /\ lower(o.code) = kind)

HasNoLab(pid) ==
    /\ TrackedObs(pid, "hemoglobin a1c") = <<>>
    /\ TrackedObs(pid, "cholesterol") = <<>>

TrueFlags(row) ==
    (IF row.diabetes_risk = Some(TRUE) THEN 1 ELSE 0)
    + (IF row.cardiovascular_risk = Some(TRUE) THEN 1 ELSE 0)

CategoryOf(n) == IF n = 0 THEN "Low Risk" ELSE IF n = 1 THEN "Moderate Risk" ELSE "High Risk"

\* C1: every row score_patient_risks returns, the rows of patients without a
\* resolved lab value included, has risk_score equal to the number of its
\* true flags and risk_category equal to the fixed mapping of that score.
C1_ScoreCountsFlags ==
    Scored =>
        \A i \in Rows(patients_with_risks_df) :
            LET row == patients_with_risks_df[i] IN
            /\ row.risk_score = Some(TrueFlags(row))
            /\ row.risk_category = Some(CategoryOf(TrueFlags(row)))

\* C2: a patient of the input without any hemoglobin a1c or cholesterol
\* observation is returned with both flags false, risk_score 0 and category
\* 'Low Risk', and is not in the result of filter_high_risk_patients.
C2_NoLabPatientIsLowRisk ==
    Scored =>
        \A i \in Rows(patients_with_risks_df) :
            LET row == patients_with_risks_df[i] IN
            HasNoLab(row.patient_id) =>
                /\ row.diabetes_risk = Some(FALSE)
                /\ row.cardiovascular_risk = Some(FALSE)
                /\ row.risk_score = Some(0)
                /\ row.risk_category = Some("Low Risk")
                /\ \A h \in high_risk_df :
                       \A j \in Rows(h) : h[j].patient_id # row.patient_id

RECURSIVE SumValues(_, _)
SumValues(f, S) ==
    IF S = {} THEN 0
    ELSE LET x == CHOOSE y \in S : TRUE IN f[x] + SumValues(f, S \ {x})

\* C3: whenever score_patient_risks returns, the values of
\* risk_summary['risk_category_counts'] sum to risk_summary['total_patients'].
C3_CategoryCountsSumToTotal ==
    Scored =>
        SumValues(risk_summary.risk_category_counts,
                  DOMAIN risk_summary.risk_category_counts)
            = risk_summary.total_patients

\* the value cell of some observation of greatest date among obs
IsLatestValue(cell, obs) ==
    \E i \in Rows(obs) :
        /\ \A j \in Rows(obs) : obs[j].date <= obs[i].date
        /\ cell = obs[i].value

\* C4: for every patient and tracked test kind, the value get_latest_lab_values
\* returns is the value of the patient's observation of that kind with the
\* greatest date, whatever the order of the observations in the input.
C4_LatestValueIsGreatestDate ==
    Scored =>
        \A i \in Rows(latest_labs_df) :
            LET row == latest_labs_df[i]
                h == TrackedObs(row.patient_id, "hemoglobin a1c")
                c == TrackedObs(row.patient_id, "cholesterol")
            IN  /\ h # <<>> => IsLatestValue(row.hba1c_value, h)
                /\ c # <<>> => IsLatestValue(row.cholesterol_value, c)

\* C5: with zero patients in the input, score_patient_risks returns without
\* error, both percentages are 0 and the high-risk report is empty.
C5_ZeroPatientsGivesZeroPercent ==
    (data.patients = <<>> /\ status # "none") =>
        /\ status = "ok"
        /\ risk_summary.diabetes_risk_percentage.num = 0
        /\ risk_summary.cardiovascular_risk_percentage.num = 0
        /\ \A h \in high_risk_df : h = <<>>

\* C6: diabetes_risk is true exactly when the latest HbA1c value is present
\* and >= 6.5, cardiovascular_risk exactly when the latest cholesterol value
\* is present and >= 240; the rules give an absent value a false flag, never
\* a true or an unknown one.
C6_RulesAreInclusiveThresholds ==
    Scored =>
        /\ \A i \in Rows(risk_df) :
              LET row == risk_df[i] IN
              /\ row.diabetes_risk \in BOOLEAN
              /\ row.cardiovascular_risk \in BOOLEAN
              /\ row.diabetes_risk <=> \E v \in row.hba1c_value : v >= 65
              /\ row.cardiovascular_risk <=> \E v \in row.cholesterol_value : v >= 2400
        /\ \A i \in Rows(patients_with_risks_df) :
              LET row == patients_with_risks_df[i] IN
              /\ row.diabetes_risk = Some(TRUE) <=> \E v \in row.hba1c_value : v >= 65
              /\ row.cardiovascular_risk = Some(TRUE)
                     <=> \E v \in row.cholesterol_value : v >= 2400

\* C6 witness: a scored row exactly on the HbA1c threshold with no cholesterol
\* value, next to a row exactly on the cholesterol threshold
C6_Witness ==
    /\ Scored
    /\ \E i \in Rows(risk_df) :
          /\ risk_df[i].hba1c_value = Some(65)
          /\ risk_df[i].diabetes_risk
          /\ IsNull(risk_df[i].cholesterol_value)
          /\ ~risk_df[i].cardiovascular_risk
    /\ \E i \in Rows(risk_df) :
          /\ risk_df[i].cholesterol_value = Some(2400)
          /\ risk_df[i].cardiovascular_risk

Count(df, r) == Cardinality({i \in Rows(df) : df[i] = r})

Qualifies(r) == \E v \in r.risk_score : v > 0

\* C7: filter_high_risk_patients returns exactly the rows of its input whose
\* risk_score is present and > 0, in an order in which risk_score never
\* increases from one row to the next.
C7_FilterKeepsPositiveScoresDescending ==
    \A h \in high_risk_df :
        /\ \A r \in Range(h) \cup Range(patients_with_risks_df) :
              Count(h, r) = IF Qualifies(r) THEN Count(patients_with_risks_df, r) ELSE 0
        /\ \A i \in 1..(Len(h) - 1) :
              Val(h[i].risk_score) >= Val(h[i + 1].risk_score)

\* C7 witness: the filter has moved a score-2 row in front of a score-1 row
C7_Witness ==
    /\ high_risk_df # None
    /\ Len(patients_with_risks_df) = 2
    /\ patients_with_risks_df[1].risk_score = Some(1)
    /\ patients_with_risks_df[2].risk_score = Some(2)
    /\ Val(high_risk_df)[1].risk_score = Some(2)

\* C8: the per-patient result of score_patient_risks has exactly one row for
\* every patient record of the input, with or without resolved lab values, so
\* total_patients is the number of input patient records and patients without
\* labs count in the denominator of the percentages.
C8_OneRowPerPatientRecord ==
    Scored =>
        /\ Len(patients_with_risks_df) = Len(data.patients)
        /\ \A i \in Rows(patients_with_risks_df) :
              Some(patients_with_risks_df[i].patient_id) = data.patients[i].id
        /\ risk_summary.total_patients = Len(data.patients)
        /\ risk_summary.diabetes_risk_percentage.den = Len(data.patients)
        /\ risk_summary.cardiovascular_risk_percentage.den = Len(data.patients)

\* C8 witness: a result holding a patient with labs and a patient without
C8_Witness ==
    /\ Scored
    /\ \E i \in Rows(patients_with_risks_df) :
          IsNull(patients_with_risks_df[i].risk_score)
    /\ \E i \in Rows(patients_with_risks_df) :
          ~IsNull(patients_with_risks_df[i].risk_score)

\* the risk record of each row: flags, score, category, reasons, lab values
RiskRecords(df) ==
    [i \in Rows(df) |->
        [patient_id |-> df[i].patient_id,
         diabetes_risk |-> df[i].diabetes_risk,
         cardiovascular_risk |-> df[i].cardiovascular_risk,
         risk_score |-> df[i].risk_score,
         risk_category |-> df[i].risk_category,
         risk_reasons |-> df[i].risk_reasons,
         hba1c_value |-> df[i].hba1c_value,
         hba1c_date |-> df[i].hba1c_date,
         cholesterol_value |-> df[i].cholesterol_value,
         cholesterol_date |-> df[i].cholesterol_date]]

\* a JSON report without its report_date
WithoutReportDate(file) ==
    {[summary |-> j.summary, high_risk_patients |-> j.high_risk_patients] : j \in file}

\* a report without the cells derived from the processing date
CsvWithoutAge(file) ==
    {[i \in Rows(rows) |-> [rows[i] EXCEPT !.age = None]] : rows \in file}

JsonWithoutAge(file) ==
    {[summary |-> j.summary,
      high_risk_patients |->
          [i \in Rows(j.high_risk_patients) |->
              [j.high_risk_patients[i] EXCEPT !.age = None, !.age_group = None]]] :
        j \in file}

\* C9 as stated: a second run of the pipeline on the same input gives the
\* same per-patient risk records and summary, and generate_reports rewrites
\* the CSV and JSON reports with the same content except for report_date.
C9_RerunSameContent ==
    [][(status = "ok" /\ status' = "ok") =>
          /\ RiskRecords(patients_with_risks_df') = RiskRecords(patients_with_risks_df)
          /\ risk_summary' = risk_summary
          /\ csv_file' = csv_file
          /\ WithoutReportDate(json_file') = WithoutReportDate(json_file)]_vars

\* C9 as amended: a second run of the pipeline on the same input gives the
\* same per-patient risk records and summary, and generate_reports rewrites
\* the CSV and JSON reports with the same content except for report_date and
\* the cells computed from the processing date (age, age_group).
C9_RerunSameExceptDateDerived ==
    [][(status = "ok" /\ status' = "ok") =>
          /\ RiskRecords(patients_with_risks_df') = RiskRecords(patients_with_risks_df)
          /\ risk_summary' = risk_summary
          /\ CsvWithoutAge(csv_file') = CsvWithoutAge(csv_file)
          /\ JsonWithoutAge(json_file') = JsonWithoutAge(json_file)]_vars

\* C9 witness: the reports were written a second time, on a later processing
\* date than the first one, and hold a patient row
C9_Witness ==
    /\ runs = 2
    /\ status = "ok"
    /\ \E j \in json_file : j.report_date = Calendar[2]
    /\ \E rows \in csv_file : \E i \in Rows(rows) : rows[i].age = Some(18)

\* C10: enrich_patient_data puts a patient aged exactly 18, 35, 50 or 65 in
\* the bracket whose lower bound is that age, never in the one ending there.
C10_BoundaryAgeInUpperBracket ==
    \A i \in Rows(enriched_patients_df) :
        LET row == enriched_patients_df[i] IN
        /\ row.age = Some(18) => row.age_group = Some("19-35")
        /\ row.age = Some(35) => row.age_group = Some("36-50")
        /\ row.age = Some(50) => row.age_group = Some("51-65")
        /\ row.age = Some(65) => row.age_group = Some("65+")

\* C10 witness: enriched patients aged exactly 18 and exactly 65
C10_Witness ==
    /\ status = "ok"
    /\ \E i \in Rows(enriched_patients_df) :
          /\ enriched_patients_df[i].age = Some(18)
          /\ enriched_patients_df[i].age_group = Some("19-35")
    /\ \E i \in Rows(enriched_patients_df) :
          /\ enriched_patients_df[i].age = Some(65)
          /\ enriched_patients_df[i].age_group = Some("65+")

\* the bracket of [0,18), [18,35), [35,50), [50,65), [65,infinity) holding a
BracketOf(a) ==
    IF a < 18 THEN "0-18" ELSE IF a < 35 THEN "19-35" ELSE IF a < 50 THEN "36-50"
    ELSE IF a < 65 THEN "51-65" ELSE "65+"

\* C11: enrich_patient_data gives every patient with a present age a >= 0
\* exactly the bracket of [0,18), [18,35), [35,50), [50,65), [65,infinity)
\* that holds a, every age >= 65 getting the last one, and leaves the age
\* bracket absent only when the age is absent.
C11_EveryAgeHasItsBracket ==
    \A i \in Rows(enriched_patients_df) :
        LET row == enriched_patients_df[i] IN
        /\ \A a \in row.age : a >= 0 => row.age_group = Some(BracketOf(a))
        /\ IsNull(row.age_group) => IsNull(row.age)

DateLeq(a, b) ==
    \/ a.year < b.year
    \/ a.year = b.year /\ ~TupleLess(<<b.month, b.day>>, <<a.month, a.day>>)

PlusYears(dt, n) == [dt EXCEPT !.year = dt.year + n]

\* C17: calculate_age returns absent, or an integer >= 0 that is the number of
\* whole years from the birthdate to the processing date; it is never
\* negative, also for a birthdate after the processing date.
C17_AgeIsAbsentOrWholeYears ==
    \A i \in Rows(enriched_patients_df) :
        LET row == enriched_patients_df[i] IN
        \A a \in row.age :
            /\ a >= 0
            /\ \A b \in strptime(row.birthdate) :
                  /\ DateLeq(PlusYears(b, a), today)
                  /\ ~DateLeq(PlusYears(b, a + 1), today)

\* C12: for every input document that is a JSON object, with collections
\* absent or empty, optional fields missing or birthdates unparsable, the
\* pipeline (load_and_normalize_data, then score_patient_risks) completes
\* without raising.
C12_PipelineNeverRaises ==
    status \in {"none", "ok"}

\* the fixed sentence of each triggered rule, diabetes first
Sentences(row) ==
    (IF row.diabetes_risk THEN <<"Diabetes Risk (HbA1c >= 6.5)">> ELSE <<>>)
    \o (IF row.cardiovascular_risk
        THEN <<"Cardiovascular Risk (Cholesterol >= 240)">> ELSE <<>>)

\* the sentences joined by "; "
RECURSIVE JoinSentences(_)
JoinSentences(ss) ==
    IF ss = <<>> THEN <<>>
    ELSE IF Len(ss) = 1 THEN ss
    ELSE <<Head(ss), ";", " ">> \o JoinSentences(Tail(ss))

\* C15: risk_reasons of every row of calculate_combined_risk is one fixed
\* sentence per triggered rule, diabetes before cardiovascular, joined by
\* "; " without a leading or trailing separator: as many sentences as
\* risk_score, and the empty string exactly when risk_score is 0.
C15_ReasonsAreJoinedSentences ==
    Scored =>
        \A i \in Rows(risk_df) :
            LET row == risk_df[i] IN
            /\ row.risk_reasons = JoinSentences(Sentences(row))
            /\ Len(Sentences(row)) = row.risk_score
            /\ row.risk_reasons = <<>> <=> row.risk_score = 0

\* C15 witness: a row with both rules triggered next to the single-rule
\* example (HbA1c over its threshold, cholesterol under its own)
C15_Witness ==
    /\ Scored
    /\ \E i \in Rows(risk_df) :
          /\ risk_df[i].risk_score = 2
          /\ risk_df[i].risk_reasons =
                <<"Diabetes Risk (HbA1c >= 6.5)", ";", " ",
                  "Cardiovascular Risk (Cholesterol >= 240)">>
    /\ \E i \in Rows(risk_df) :
          /\ risk_df[i].cholesterol_value = Some(2400)
          /\ IsNull(risk_df[i].hba1c_value)
          /\ risk_df[i].risk_reasons = <<"Cardiovascular Risk (Cholesterol >= 240)">>

\* the patient ids with a matching observation of either tracked kind
IdsWithLabs ==
    {o.patient_id : o \in {x \in Range(normalize_observations(data)) :
                              lower(x.code) \in {"hemoglobin a1c", "cholesterol"}}}

\* C16: get_latest_lab_values returns exactly one row for every patient id
\* with a matching observation of either test kind and none for any other
\* id; a patient with observations of one kind only has the value and the
\* date of the other kind absent.
C16_OneLabRowPerPatientWithLabs ==
    Scored =>
        /\ {latest_labs_df[i].patient_id : i \in Rows(latest_labs_df)} = IdsWithLabs
        /\ \A i, j \in Rows(latest_labs_df) :
              latest_labs_df[i].patient_id = latest_labs_df[j].patient_id => i = j
        /\ \A i \in Rows(latest_labs_df) :
              LET row == latest_labs_df[i] IN
              /\ TrackedObs(row.patient_id, "hemoglobin a1c") = <<>> =>
                    IsNull(row.hba1c_value) /\ IsNull(row.hba1c_date)
              /\ TrackedObs(row.patient_id, "cholesterol") = <<>> =>
                    IsNull(row.cholesterol_value) /\ IsNull(row.cholesterol_date)

\* C16 witness: a patient with HbA1c observations only and a patient with
\* cholesterol observations only, one row each
C16_Witness ==
    /\ Scored
    /\ Len(latest_labs_df) = 2
    /\ ~IsNull(latest_labs_df[1].hba1c_date)
    /\ IsNull(latest_labs_df[1].cholesterol_date)
    /\ IsNull(latest_labs_df[2].hba1c_date)
    /\ ~IsNull(latest_labs_df[2].cholesterol_date)

FromOneObservation(value, date, obs) ==
    \E i \in Rows(obs) : value = obs[i].value /\ date = Some(obs[i].date)

\* C18: for every patient and test kind, the value and the date that
\* get_latest_lab_values reports come from one and the same observation,
\* also when the most recent matching observation has no numeric value.
C18_ValueAndDateFromOneObservation ==
    Scored =>
        \A i \in Rows(latest_labs_df) :
            LET row == latest_labs_df[i]
                h == TrackedObs(row.patient_id, "hemoglobin a1c")
                c == TrackedObs(row.patient_id, "cholesterol")
            IN  /\ h # <<>> => FromOneObservation(row.hba1c_value, row.hba1c_date, h)
                /\ c # <<>> => FromOneObservation(row.cholesterol_value,
                                                  row.cholesterol_date, c)

\* an observation of a tracked kind whose reference names patient p
ResolvesTo(o, p, kind) ==
    /\ lower(o.code) = kind
    /\ ~IsNull(p.id)
    /\ o.reference = <<"Patient", Val(p.id)>>

HasResolved(p, kind) ==
    \E k \in Rows(data.observations) : ResolvesTo(data.observations[k], p, kind)

\* C13: an observation whose patient reference is absent or names no
\* existing patient contributes no lab value, flag or score to any row
\* score_patient_risks returns (the row of a patient record without an id
\* included), and does not make the pipeline fail: a row has an HbA1c or
\* cholesterol value, a true flag or a positive score only from observations
\* that reference its patient, and scoring a document with patients and
\* observations ends without an exception.
C13_UnresolvedObservationContributesNothing ==
    /\ (data.patients # <<>> /\ data.observations # <<>>) => status \in {"none", "ok"}
    /\ Scored =>
          \A i \in Rows(patients_with_risks_df) :
              LET row == patients_with_risks_df[i]
                  p == data.patients[i]
              IN  /\ ~HasResolved(p, "hemoglobin a1c") =>
                        /\ IsNull(row.hba1c_value)
                        /\ row.diabetes_risk # Some(TRUE)
                  /\ ~HasResolved(p, "cholesterol") =>
                        /\ IsNull(row.cholesterol_value)
                        /\ row.cardiovascular_risk # Some(TRUE)
                  /\ (~HasResolved(p, "hemoglobin a1c") /\ ~HasResolved(p, "cholesterol")) =>
                        row.risk_score \notin {Some(1), Some(2)}

\* the foreign key the reference stands for: <id> of 'Patient/<id>', and the
\* empty key of anything else
KeyOf(ref) == IF Len(ref) = 2 /\ ref[1] = "Patient" THEN ref[2] ELSE ""

KeysAreOf(df, raw) ==
    /\ Len(df) = Len(raw)
    /\ \A i \in Rows(df) : df[i].patient_id = KeyOf(raw[i].reference)

\* C19: in the frames of observations, medications and allergies that
\* load_and_normalize_data returns, a reference 'Patient/<id>' yields the
\* foreign key <id>, and every absent or malformed reference (empty, without
\* the 'Patient/' prefix, or without a '/') yields the empty foreign key.
C19_MalformedReferenceGivesEmptyKey ==
    Scored =>
        /\ KeysAreOf(normalized_data.observations_df, data.observations)
        /\ KeysAreOf(normalized_data.medications_df, data.medications)
        /\ KeysAreOf(normalized_data.allergies_df, data.allergies)

\* C14: when the input file cannot be read, is not valid JSON or is not a
\* JSON object at its top level, every call of generate_reports ends with an
\* exception and leaves high_risk_report.csv and high_risk_report.json as
\* they were: neither is created or modified, and no run is counted as
\* completed.
C14_InvalidInputWritesNoReport ==
    [][data.file # "object" =>
          /\ csv_file' = csv_file
          /\ json_file' = json_file
          /\ runs' = runs
          /\ clock' = clock =>
                status' \in {"FileNotFoundError", "JSONDecodeError", "AttributeError"}]_vars

\* C14 witness: generate_reports has failed on text that is not JSON while
\* an earlier run's CSV report, and no JSON report, was in place
C14_Witness ==
    /\ data.file = "invalid json"
    /\ status = "JSONDecodeError"
    /\ csv_file = OldReports.csv
    /\ ~IsNull(csv_file)
    /\ IsNull(json_file)

\* C20: a call of load_report_data regenerates the reports through
\* generate_reports exactly when the CSV report or the JSON report is absent;
\* when both exist it writes nothing; and whenever it returns, both report
\* files exist and what it returns is what is read from those two files.
C20_LoadRegeneratesExactlyWhenAbsent ==
    [][dashboard'.loads # dashboard.loads =>
          /\ dashboard'.regenerated = (IsNull(csv_file) \/ IsNull(json_file))
          /\ (~IsNull(csv_file) /\ ~IsNull(json_file)) =>
                /\ csv_file' = csv_file
                /\ json_file' = json_file
                /\ runs' = runs
          /\ ~IsNull(dashboard'.returned) =>
                /\ ~IsNull(csv_file')
                /\ ~IsNull(json_file')
                /\ dashboard'.returned =
                      Some([high_risk_df |-> read_csv(Val(csv_file')),
                            report_json |-> Val(json_file')])]_vars

\* C20 witness: two calls, the first of which regenerated the reports and
\* returned a high-risk patient read from them
C20_Witness ==
    /\ dashboard.loads = 2
    /\ runs = 1
    /\ ~IsNull(dashboard.returned)
    /\ Val(dashboard.returned).high_risk_df # <<>>
    /\ Val(dashboard.returned).report_json = Val(json_file)

====
